---------------------------- MODULE Spec2Model ----------------------------
(***************************************************************************)
(* Behaviour of the landing-page script (src/script.js and its second      *)
(* variant src/unnamed/part_000): the CTA parameter merger, the Meta Pixel  *)
(* conversion event sequencer, the countdown timer, the carousel, the      *)
(* traffic-source classification and the UTM persistence of part_000.       *)
(*                                                                          *)
(* Eight specifications share this module:                                  *)
(*   Spec           the event sequencer over one page view (init, the       *)
(*                  readiness poll, the timers, scroll and click handlers)  *)
(*   UrlSpec        buildTrackedUrl on drawn templates and page queries     *)
(*   CountdownSpec  startCountdown and its 1000 ms tick                     *)
(*   CarouselSpec   initCarousel and its handlers                           *)
(*   TrafficSpec    getTrafficSourceInfo and the event payloads on drawn    *)
(*                  page queries and referrers                              *)
(*   KeepUtmSpec    keepUtmInUrl, its 2000 ms interval and URL rewrites     *)
(*   AbsentSpec     init() on a page without the CTA and without a full     *)
(*                  set of countdown slots                                  *)
(*   CtaSpec        applyCtaUrl on drawn page queries                       *)
(* Each specification leaves the other components' variables at rest.       *)
(*                                                                          *)
(* Time is counted in steps of 100 ms, the greatest common divisor of every *)
(* delay the sequencer passes to setTimeout (100, 300, 1000, 2000, 10000).  *)
(* A timer is its remaining number of steps; a timer at 0 is due and runs   *)
(* before time advances.                                                    *)
(***************************************************************************)
EXTENDS Integers, Sequences, FiniteSets, TLC

VARIABLES
    \* ---- parameter merger (buildTrackedUrl / applyCtaUrl)
    pageQuery,        \* window.location.search, parsed: sequence of [k, v]
    baseUrl,          \* the destination template handed to buildTrackedUrl
    trackedUrl,       \* the URL buildTrackedUrl returned, or NoUrl
    \* ---- the page and the tracking library
    pc,               \* "load" before init() ran, "run" after, "unloaded"
    variant,          \* which source file runs: "script" or "part_000"
    ctaPresent,       \* document.getElementById('primary-cta') is non-null
    ctaHref,          \* the CTA still has its href attribute
    dataDestination,  \* the CTA's data-destination attribute, or NoUrl
    fbq,              \* "undefined", "defined" (loaded falsy) or "loaded"
    fbqThrows,        \* window.fbq throws on every invocation
    fbqHasQueue,      \* typeof window.fbq.queue !== 'undefined'
    fbqCalls,         \* number of window.fbq('track', name, ...) invocations, by name
    \* ---- waitForFbq / setupMetaPixelTracking
    attempts,         \* waitForFbq: let attempts
    pollTimer,        \* setTimeout(checkFbq, interval): steps left, or Off
    waitPromise,      \* the promise waitForFbq returned
    setupPromise,     \* the promise setupMetaPixelTracking returned to init
    viewTimer,        \* setTimeout(ViewContent, 2000): steps left, or Off
    dwellTimer,       \* setTimeout(timeThreshold, 10000): steps left, or Off
    leadTracked,
    scrollThreshold,
    timeThreshold,
    engagementType,   \* leadData.engagement_type of the Lead sent, or "none"
    scrollListener,   \* handleScroll is registered on window
    clickListener,    \* the click handler is registered on the CTA
    clicks,           \* one record per handled click: its closure (redirected) and two timers
    ignoredClicks,    \* CTA activations that found no click handler
    navigations,      \* the values assigned to window.location.href, in order
    \* ---- countdown
    timeLeft,
    slots,            \* which of #hours, #minutes, #seconds exist
    display,          \* textContent of the three slots
    countdownTimer,   \* setInterval(tick, 1000) is live
    lastTick,         \* timeLeft as the latest tick found it, or NoTick
    \* ---- carousel
    nImages,
    nIndicators,
    currentIndex,
    imageActive,      \* indices of images carrying class 'active'
    indicatorActive,  \* indices of indicators carrying class 'active'
    autoRotateInterval, \* the handle stored by startAutoRotation, or NoHandle
    liveIntervals,    \* handle -> steps left until nextImage, for every live interval
    nextHandle,       \* the next handle setInterval will return
    carouselOn,       \* initCarousel got past its guard
    hovered,          \* the pointer is over .image-carousel
    carouselDom,      \* which of the arrows and the .image-carousel container exist
    carouselHist,     \* the latest navigation steps: [op, from]
    sinceNav,         \* 1000 ms steps since the latest manual navigation, or Never
    \* ---- traffic source and UTM persistence
    referrer,         \* document.referrer
    trafficInfo,      \* what getTrafficSourceInfo returned, or NoInfo
    eventData,        \* the event payload built from trafficInfo, or NoEvent
    sessionStorage,   \* the item 'persistent_utm', or NoItem
    storageThrows,    \* sessionStorage throws on every access
    keepTimer,        \* setInterval(keepUtmInUrl, 2000): 1000 ms steps left, or Off
    utmPhase          \* "carried": the URL had UTM keys at the latest keepUtmInUrl;
                      \* "removed": a rewrite has removed them since; else "none"

urlVars == <<pageQuery, baseUrl, trackedUrl>>
pageVars == <<pc, variant, ctaPresent, ctaHref, dataDestination, fbq, fbqThrows,
              fbqHasQueue, fbqCalls>>
seqVars == <<attempts, pollTimer, waitPromise, setupPromise, viewTimer, dwellTimer,
             leadTracked, scrollThreshold, timeThreshold, engagementType,
             scrollListener, clickListener, clicks, ignoredClicks, navigations>>
countdownVars == <<timeLeft, slots, display, countdownTimer, lastTick>>
carouselVars == <<nImages, nIndicators, currentIndex, imageActive, indicatorActive,
                  autoRotateInterval, liveIntervals, nextHandle, carouselOn, hovered,
                  carouselDom, carouselHist, sinceNav>>
utmVars == <<referrer, trafficInfo, eventData, sessionStorage, storageThrows, keepTimer,
             utmPhase>>
vars == <<urlVars, pageVars, seqVars, countdownVars, carouselVars, utmVars>>

-----------------------------------------------------------------------------
(* Bounds of the model *)

\* page query strings carry at most this many parameters
MaxSourceParams == 2
\* CTA activations per page view
MaxClicks == 2
\* carousels have at most this many images, and this many indicators
MaxImages == 3
\* setInterval hands out at most this many handles per page view
MaxHandles == 3
\* the library is loaded when the page's script starts, or reports loaded
\* after this many readiness checks, or only once the readiness poll is over
MaxLoadAttempt == 1

-----------------------------------------------------------------------------
(* URLSearchParams: an ordered list of key/value pairs *)

NoUrl == [origin |-> "", params |-> <<>>, none |-> TRUE]
Null == "\\null"

Param(k, v) == [k |-> k, v |-> v]
Url(origin, params) == [origin |-> origin, params |-> params, none |-> FALSE]

\* URLSearchParams.prototype.has
Has(params, key) == \E i \in 1..Len(params) : params[i].k = key

\* URLSearchParams.prototype.get: the first value of key, or null
Get(params, key) ==
    IF Has(params, key)
    THEN params[CHOOSE i \in 1..Len(params) :
                    /\ params[i].k = key
                    /\ \A j \in 1..(i - 1) : params[j].k # key].v
    ELSE Null

\* the values of key, in order (URLSearchParams.prototype.getAll)
GetAll(params, key) ==
    LET F[i \in 0..Len(params)] ==
            IF i = 0 THEN <<>>
            ELSE IF params[i].k = key THEN Append(F[i - 1], params[i].v) ELSE F[i - 1]
    IN F[Len(params)]

\* URLSearchParams.prototype.set: overwrite the first pair named key and drop
\* the others, or append a new pair
Set(params, key, value) ==
    IF Has(params, key)
    THEN LET first == CHOOSE i \in 1..Len(params) :
                          /\ params[i].k = key
                          /\ \A j \in 1..(i - 1) : params[j].k # key
             F[i \in 0..Len(params)] ==
                 IF i = 0 THEN <<>>
                 ELSE IF i = first THEN Append(F[i - 1], Param(key, value))
                 ELSE IF params[i].k = key THEN F[i - 1]
                 ELSE Append(F[i - 1], params[i])
         IN F[Len(params)]
    ELSE Append(params, Param(key, value))

\* the keys of a parameter list
KeysOf(params) == {params[i].k : i \in 1..Len(params)}

-----------------------------------------------------------------------------
(* buildTrackedUrl *)

allowedParams == <<"utm_source", "utm_medium", "utm_campaign", "utm_term",
                   "utm_content", "fbclid", "gclid", "ch", "fbPixelId">>

\* sourceParams.get(key) || ''
OrEmpty(v) == IF v = Null \/ v = "" THEN "" ELSE v

\* a faulty loop body: the inner test on url.searchParams.has(key) is missing
MergeOverwrite(params, sourceParams, key) ==
    IF Has(sourceParams, key)
    THEN Set(params, key, OrEmpty(Get(sourceParams, key)))
    ELSE params

\* a faulty loop body: the pair is appended whatever the URL already carries
MergeAppend(params, sourceParams, key) ==
    IF Has(sourceParams, key)
    THEN Append(params, Param(key, OrEmpty(Get(sourceParams, key))))
    ELSE params

\* one pass of the for loop body over key
MergeKey(params, sourceParams, key) ==
    IF Has(sourceParams, key)
    THEN IF ~Has(params, key)
         THEN Set(params, key, OrEmpty(Get(sourceParams, key)))
         ELSE params
    ELSE params

\* a faulty whitelist: the UTM keys alone
LoopKeysShort == SubSeq(allowedParams, 1, 5)

\* the keys the loop of buildTrackedUrl visits
LoopKeys == allowedParams

buildTrackedUrl(base, sourceParams) ==
    LET keys == LoopKeys
        F[i \in 0..Len(keys)] ==
            IF i = 0 THEN base.params
            ELSE MergeKey(F[i - 1], sourceParams, keys[i])
    IN Url(base.origin, F[Len(keys)])

\* the two DESTINATION_URL constants of applyCtaUrl
DestinationScript ==
    Url("https://x9a8rje.com", <<Param("ch", "6825"), Param("fbPixelId", "1032961382302053")>>)
DestinationPart000 ==
    Url("https://googlegnrrz.com", <<Param("ch", "32098"), Param("fbPixelId", "1289805165983519")>>)

DESTINATION_URL(v) == IF v = "script" THEN DestinationScript ELSE DestinationPart000


-----------------------------------------------------------------------------
(* Timers and event counts *)

Off == 0 - 1       \* a timer that was never scheduled, or was destroyed
Fired == 0 - 2     \* a one-shot timer whose callback has run

\* a delay in milliseconds as a number of 100 ms steps
Steps(ms) == ms \div 100

Pending(t) == t >= 0
Due(t) == t = 0
Advance(t) == IF t > 0 THEN t - 1 ELSE t

EventNames == {"PageView", "ViewContent", "Lead", "AddToCart"}
NoCalls == [n \in EventNames |-> 0]
Inc(calls, name) == [calls EXCEPT ![name] = @ + 1]

\* default parameters of waitForFbq
maxAttempts == 50
interval == 100
\* the delays handed to setTimeout by setupMetaPixelTracking
ViewContentDelay == 2000
DwellDelay == 10000
RedirectDelay == 300
FallbackDelay == 1000
\* handleScroll: window.scrollY > 300
ScrollPx == 300

-----------------------------------------------------------------------------
(* trackMetaPixelEvent: the call is made unless fbq is undefined; an        *)
(* exception thrown by fbq is caught inside, so none escapes to the caller. *)
(* calls: the invocation counts after the call; escaped: an exception       *)
(* propagates to the caller.                                                *)

\* a faulty trackMetaPixelEvent: no try/catch around the call
trackWithoutCatch(calls, eventName) ==
    IF fbq = "undefined"
    THEN [calls |-> calls, escaped |-> FALSE]
    ELSE [calls |-> Inc(calls, eventName), escaped |-> fbqThrows]

trackMetaPixelEvent(calls, eventName) ==
    IF fbq = "undefined"
    THEN [calls |-> calls, escaped |-> FALSE]
    ELSE [calls |-> Inc(calls, eventName), escaped |-> FALSE]

-----------------------------------------------------------------------------
(* applyCtaUrl *)

\* a faulty applyCtaUrl: the attribute is not written
SetDestinationNone(tracked) == NoUrl

\* cta.setAttribute('data-destination', tracked): the attribute's new value
SetDestination(tracked) == tracked

applyCtaUrl ==
    IF ~ctaPresent
    THEN UNCHANGED <<dataDestination, ctaHref>>
    ELSE /\ dataDestination' =
               SetDestination(buildTrackedUrl(DESTINATION_URL(variant), pageQuery))
         /\ ctaHref' = FALSE

-----------------------------------------------------------------------------
(* setupMetaPixelTracking *)

\* a faulty ViewContent timer: no delay
ViewContentTimerNow == Steps(0)

\* setTimeout(() => trackMetaPixelEvent('ViewContent', ...), 2000)
ViewContentTimer == Steps(ViewContentDelay)

\* a setup that sends no PageView in either file
SendsPageViewNever(v) == FALSE

\* the enhanced PageView, which part_000 alone has: trackMetaPixelEvent('PageView', pageViewData, ...)
SendsPageView(v) == v = "part_000"

\* the body of setupMetaPixelTracking after `await waitForFbq()` resolved
SetupAfterReady ==
    IF ~ctaPresent
    THEN /\ setupPromise' = "fulfilled"
         /\ UNCHANGED <<fbqCalls, viewTimer, dwellTimer, scrollListener, clickListener>>
    ELSE LET r == IF SendsPageView(variant)
                  THEN trackMetaPixelEvent(fbqCalls, "PageView")
                  ELSE [calls |-> fbqCalls, escaped |-> FALSE]
         IN /\ fbqCalls' = r.calls
            /\ setupPromise' = "fulfilled"
            /\ IF r.escaped
               THEN \* the catch block of setupMetaPixelTracking
                    UNCHANGED <<viewTimer, dwellTimer, scrollListener, clickListener>>
               ELSE /\ viewTimer' = ViewContentTimer
                    /\ dwellTimer' = Steps(DwellDelay)
                    /\ scrollListener' = TRUE
                    /\ clickListener' = TRUE

\* a faulty setupMetaPixelTracking: the rejection of waitForFbq is not caught
SetupWithoutCatch ==
    /\ setupPromise' = "rejected"
    /\ UNCHANGED <<fbqCalls, viewTimer, dwellTimer, scrollListener, clickListener>>

\* a faulty catch block: the setup carries on as if the library were ready
SetupCatchCarriesOn == SetupAfterReady

\* the catch block, entered when waitForFbq rejected
SetupCatch ==
    /\ setupPromise' = "fulfilled"
    /\ UNCHANGED <<fbqCalls, viewTimer, dwellTimer, scrollListener, clickListener>>

\* a faulty budget test: attempts > maxAttempts
ExhaustedLate(n) == n > maxAttempts

\* waitForFbq's budget test: attempts >= maxAttempts
Exhausted(n) == n >= maxAttempts

\* waitForFbq.checkFbq, followed by what the settled promise runs
checkFbq ==
    /\ attempts' = attempts + 1
    /\ IF fbq = "loaded"
       THEN /\ waitPromise' = "resolved"
            /\ pollTimer' = Off
            /\ SetupAfterReady
       ELSE IF Exhausted(attempts')
       THEN /\ waitPromise' = "rejected"
            /\ pollTimer' = Off
            /\ SetupCatch
       ELSE /\ pollTimer' = Steps(interval)
            /\ UNCHANGED <<waitPromise, setupPromise, fbqCalls, viewTimer, dwellTimer,
                           scrollListener, clickListener>>

\* init(): applyCtaUrl(); setupMetaPixelTracking() up to its await
init ==
    /\ pc = "load"
    /\ pc' = "run"
    /\ applyCtaUrl
    /\ checkFbq
    /\ UNCHANGED <<urlVars, variant, ctaPresent, fbq, fbqThrows, fbqHasQueue,
                   leadTracked, scrollThreshold, timeThreshold, engagementType,
                   clicks, ignoredClicks, navigations, countdownVars, carouselVars, utmVars>>

\* setTimeout(checkFbq, interval) expires
PollFire ==
    /\ pc = "run"
    /\ Due(pollTimer)
    /\ checkFbq
    /\ UNCHANGED <<urlVars, pc, variant, ctaPresent, ctaHref, dataDestination, fbq,
                   fbqThrows, fbqHasQueue,
                   leadTracked, scrollThreshold, timeThreshold, engagementType,
                   clicks, ignoredClicks, navigations, countdownVars, carouselVars, utmVars>>

\* the ViewContent timer expires
ViewContentFire ==
    /\ pc = "run"
    /\ Due(viewTimer)
    /\ viewTimer' = Fired
    /\ fbqCalls' = trackMetaPixelEvent(fbqCalls, "ViewContent").calls
    /\ UNCHANGED <<urlVars, pc, variant, ctaPresent, ctaHref, dataDestination, fbq,
                   fbqThrows, fbqHasQueue, attempts, pollTimer, waitPromise,
                   setupPromise, dwellTimer, leadTracked, scrollThreshold,
                   timeThreshold, engagementType, scrollListener, clickListener,
                   clicks, ignoredClicks, navigations, countdownVars, carouselVars, utmVars>>

\* a faulty guard: leadTracked is not consulted
LeadGuardNone(tracked, scrolled, timed) == scrolled \/ timed

\* the guard of checkLeadConditions
LeadGuard(tracked, scrolled, timed) == ~tracked /\ (scrolled \/ timed)

\* a faulty payload: the engagement is always reported as time
EngagementTypeTime(scrolled) == "time"

\* engagement_type: scrollThreshold ? 'scroll' : 'time'
EngagementType(scrolled) == IF scrolled THEN "scroll" ELSE "time"

\* a checkLeadConditions that leaves the scroll listener registered
KeepScrollListener(escaped, listener) == listener

\* window.removeEventListener('scroll', handleScroll), the last statement of
\* checkLeadConditions: reached unless the tracking call let an exception escape
RemoveScrollListener(escaped, listener) == IF escaped THEN listener ELSE FALSE

\* checkLeadConditions, given the thresholds as the caller just set them
checkLeadConditions(scrolled, timed) ==
    IF LeadGuard(leadTracked, scrolled, timed)
    THEN LET r == trackMetaPixelEvent(fbqCalls, "Lead")
         IN /\ leadTracked' = TRUE
            /\ engagementType' = EngagementType(scrolled)
            /\ fbqCalls' = r.calls
            /\ scrollListener' = RemoveScrollListener(r.escaped, scrollListener)
    ELSE UNCHANGED <<leadTracked, engagementType, fbqCalls, scrollListener>>

\* a scroll event with window.scrollY = y
ScrollYs == {0, ScrollPx, ScrollPx + 1}

handleScroll(y) ==
    IF ~scrollThreshold /\ y > ScrollPx
    THEN /\ scrollThreshold' = TRUE
         /\ checkLeadConditions(TRUE, timeThreshold)
    ELSE UNCHANGED <<scrollThreshold, leadTracked, engagementType, fbqCalls,
                     scrollListener>>

Scroll ==
    /\ pc = "run"
    /\ scrollListener
    /\ \E y \in ScrollYs : handleScroll(y)
    /\ UNCHANGED <<urlVars, pc, variant, ctaPresent, ctaHref, dataDestination, fbq,
                   fbqThrows, fbqHasQueue, attempts, pollTimer, waitPromise,
                   setupPromise, viewTimer, dwellTimer, timeThreshold, clickListener,
                   clicks, ignoredClicks, navigations, countdownVars, carouselVars, utmVars>>

\* the 10000 ms dwell timer expires
DwellFire ==
    /\ pc = "run"
    /\ Due(dwellTimer)
    /\ dwellTimer' = Fired
    /\ timeThreshold' = TRUE
    /\ checkLeadConditions(scrollThreshold, TRUE)
    /\ UNCHANGED <<urlVars, pc, variant, ctaPresent, ctaHref, dataDestination, fbq,
                   fbqThrows, fbqHasQueue, attempts, pollTimer, waitPromise,
                   setupPromise, viewTimer, scrollThreshold, clickListener,
                   clicks, ignoredClicks, navigations, countdownVars, carouselVars, utmVars>>


-----------------------------------------------------------------------------
(* The CTA click handler and its two redirect timers *)

\* a faulty click closure: the primary redirect is scheduled with no delay
NewClickNoDelay == [redirected |-> FALSE, t300 |-> Steps(0),
                    t1000 |-> Steps(FallbackDelay)]

\* a faulty click closure: the two delays are exchanged
NewClickSwapped == [redirected |-> FALSE, t300 |-> Steps(FallbackDelay),
                    t1000 |-> Steps(RedirectDelay)]

\* the closure of one click: let redirected = false and the two timers
NewClick == [redirected |-> FALSE, t300 |-> Steps(RedirectDelay),
             t1000 |-> Steps(FallbackDelay)]

\* the click handler registered by setupMetaPixelTracking
CtaClick ==
    /\ pc = "run"
    /\ ctaPresent
    /\ clickListener
    /\ Len(clicks) + ignoredClicks < MaxClicks
    /\ LET r == trackMetaPixelEvent(fbqCalls, "AddToCart")
       IN IF r.escaped
          THEN /\ fbqCalls' = r.calls
               /\ UNCHANGED clicks
          ELSE IF ~dataDestination.none
          THEN /\ clicks' = Append(clicks, NewClick)
               \* the second, optional call: if (window.fbq && typeof window.fbq.queue !== 'undefined')
               /\ fbqCalls' = IF fbq # "undefined" /\ fbqHasQueue
                              THEN Inc(r.calls, "AddToCart")
                              ELSE r.calls
          ELSE /\ fbqCalls' = r.calls
               /\ UNCHANGED clicks
    /\ UNCHANGED <<urlVars, pc, variant, ctaPresent, ctaHref, dataDestination, fbq,
                   fbqThrows, fbqHasQueue, attempts, pollTimer, waitPromise,
                   setupPromise, viewTimer, dwellTimer, leadTracked, scrollThreshold,
                   timeThreshold, engagementType, scrollListener, clickListener,
                   ignoredClicks, navigations, countdownVars, carouselVars, utmVars>>

\* the CTA is activated while no click handler is registered: applyCtaUrl has
\* removed href, so the activation has no default action either
CtaClickUnhandled ==
    /\ pc = "run"
    /\ ctaPresent
    /\ ~clickListener
    /\ ~ctaHref
    /\ Len(clicks) + ignoredClicks < MaxClicks
    /\ ignoredClicks' = ignoredClicks + 1
    /\ UNCHANGED <<urlVars, pageVars, attempts, pollTimer, waitPromise,
                   setupPromise, viewTimer, dwellTimer, leadTracked, scrollThreshold,
                   timeThreshold, engagementType, scrollListener, clickListener,
                   clicks, navigations, countdownVars, carouselVars, utmVars>>

\* a faulty guard: the one-shot flag is not consulted
RedirectGuardNone(redirected) == TRUE

\* performRedirect: if (!redirected)
RedirectGuard(redirected) == ~redirected

\* performRedirect in the closure of click i; destinationUrl is the CTA's
\* data-destination, which nothing changes after applyCtaUrl
performRedirect(i) ==
    IF RedirectGuard(clicks[i].redirected)
    THEN [click |-> [clicks[i] EXCEPT !.redirected = TRUE],
          nav |-> Append(navigations, dataDestination)]
    ELSE [click |-> clicks[i], nav |-> navigations]

\* setTimeout(performRedirect, 300) of click i expires
RedirectFire ==
    /\ pc = "run"
    /\ \E i \in 1..Len(clicks) :
          /\ Due(clicks[i].t300)
          /\ LET r == performRedirect(i)
             IN /\ clicks' = [clicks EXCEPT ![i] = [r.click EXCEPT !.t300 = Fired]]
                /\ navigations' = r.nav
    /\ UNCHANGED <<urlVars, pageVars, attempts, pollTimer, waitPromise,
                   setupPromise, viewTimer, dwellTimer, leadTracked, scrollThreshold,
                   timeThreshold, engagementType, scrollListener, clickListener,
                   ignoredClicks, countdownVars, carouselVars, utmVars>>

\* setTimeout(performRedirect, 1000) of click i expires
FallbackFire ==
    /\ pc = "run"
    /\ \E i \in 1..Len(clicks) :
          /\ Due(clicks[i].t1000)
          /\ LET r == performRedirect(i)
             IN /\ clicks' = [clicks EXCEPT ![i] = [r.click EXCEPT !.t1000 = Fired]]
                /\ navigations' = r.nav
    /\ UNCHANGED <<urlVars, pageVars, attempts, pollTimer, waitPromise,
                   setupPromise, viewTimer, dwellTimer, leadTracked, scrollThreshold,
                   timeThreshold, engagementType, scrollListener, clickListener,
                   ignoredClicks, countdownVars, carouselVars, utmVars>>

-----------------------------------------------------------------------------
(* The environment of the sequencer: time, the library, the navigation *)

SeqTimers == {pollTimer, viewTimer, dwellTimer}
                 \cup {clicks[i].t300 : i \in 1..Len(clicks)}
                 \cup {clicks[i].t1000 : i \in 1..Len(clicks)}

\* 100 ms pass: no timer is due, some timer is pending
Tick ==
    /\ pc = "run"
    /\ \E t \in SeqTimers : Pending(t)
    /\ \A t \in SeqTimers : ~Due(t)
    /\ pollTimer' = Advance(pollTimer)
    /\ viewTimer' = Advance(viewTimer)
    /\ dwellTimer' = Advance(dwellTimer)
    /\ clicks' = [i \in 1..Len(clicks) |->
                     [clicks[i] EXCEPT !.t300 = Advance(@), !.t1000 = Advance(@)]]
    /\ UNCHANGED <<urlVars, pageVars, attempts, waitPromise, setupPromise,
                   leadTracked, scrollThreshold, timeThreshold, engagementType,
                   scrollListener, clickListener, ignoredClicks, navigations,
                   countdownVars, carouselVars, utmVars>>

\* the pixel snippet defines window.fbq (loaded still falsy)
FbqDefined ==
    /\ pc = "run"
    /\ fbq = "undefined"
    /\ fbq' = "defined"
    /\ UNCHANGED <<urlVars, pc, variant, ctaPresent, ctaHref, dataDestination,
                   fbqThrows, fbqHasQueue, fbqCalls, seqVars, countdownVars,
                   carouselVars, utmVars>>

\* the library sets window.fbq.loaded
FbqLoaded ==
    /\ pc = "run"
    /\ fbq \in {"undefined", "defined"}
    /\ attempts = MaxLoadAttempt \/ waitPromise # "pending"
    /\ fbq' = "loaded"
    /\ UNCHANGED <<urlVars, pc, variant, ctaPresent, ctaHref, dataDestination,
                   fbqThrows, fbqHasQueue, fbqCalls, seqVars, countdownVars,
                   carouselVars, utmVars>>

StopTimer(t) == IF Pending(t) THEN Off ELSE t

\* the navigation started by an assignment to window.location.href commits:
\* the document is unloaded and its timers are destroyed
PageUnload ==
    /\ pc = "run"
    /\ navigations # <<>>
    /\ pc' = "unloaded"
    /\ pollTimer' = StopTimer(pollTimer)
    /\ viewTimer' = StopTimer(viewTimer)
    /\ dwellTimer' = StopTimer(dwellTimer)
    /\ clicks' = [i \in 1..Len(clicks) |->
                     [clicks[i] EXCEPT !.t300 = StopTimer(@), !.t1000 = StopTimer(@)]]
    /\ UNCHANGED <<urlVars, variant, ctaPresent, ctaHref, dataDestination, fbq,
                   fbqThrows, fbqHasQueue, fbqCalls, attempts, waitPromise,
                   setupPromise, leadTracked, scrollThreshold, timeThreshold,
                   engagementType, scrollListener, clickListener, ignoredClicks,
                   navigations, countdownVars, carouselVars, utmVars>>

-----------------------------------------------------------------------------
(* Components at rest *)

NoTick == 0 - 1
NoHandle == 0 - 1
Never == 0 - 1
NoInfo == [none |-> TRUE]
NoEvent == [none |-> TRUE]
NoItem == [none |-> TRUE]
NoDisplay == [hours |-> "", minutes |-> "", seconds |-> ""]

UtmAtRest ==
    /\ referrer = ""
    /\ trafficInfo = NoInfo
    /\ eventData = NoEvent
    /\ sessionStorage = NoItem
    /\ storageThrows = FALSE
    /\ keepTimer = Off
    /\ utmPhase = "none"

UrlAtRest ==
    /\ baseUrl = NoUrl
    /\ trackedUrl = NoUrl

SeqAtRest ==
    /\ pc = "load"
    /\ variant = "script"
    /\ ctaPresent = FALSE
    /\ ctaHref = FALSE
    /\ dataDestination = NoUrl
    /\ fbq = "undefined"
    /\ fbqThrows = FALSE
    /\ fbqHasQueue = FALSE
    /\ fbqCalls = NoCalls
    /\ attempts = 0
    /\ pollTimer = Off
    /\ waitPromise = "none"
    /\ setupPromise = "none"
    /\ viewTimer = Off
    /\ dwellTimer = Off
    /\ leadTracked = FALSE
    /\ scrollThreshold = FALSE
    /\ timeThreshold = FALSE
    /\ engagementType = "none"
    /\ scrollListener = FALSE
    /\ clickListener = FALSE
    /\ clicks = <<>>
    /\ ignoredClicks = 0
    /\ navigations = <<>>

CountdownAtRest ==
    /\ timeLeft = 24 * 60 * 60
    /\ slots = {}
    /\ display = NoDisplay
    /\ countdownTimer = FALSE
    /\ lastTick = NoTick

CarouselAtRest ==
    /\ nImages = 0
    /\ nIndicators = 0
    /\ currentIndex = 0
    /\ imageActive = {}
    /\ indicatorActive = {}
    /\ autoRotateInterval = NoHandle
    /\ liveIntervals = <<>>
    /\ nextHandle = 1
    /\ carouselOn = FALSE
    /\ hovered = FALSE
    /\ carouselDom = [leftArrow |-> FALSE, rightArrow |-> FALSE, container |-> FALSE]
    /\ carouselHist = <<>>
    /\ sinceNav = Never

-----------------------------------------------------------------------------
(* The sequencer over one page view *)

\* the page query the sequencer is run on
SeqQueries == {<<Param("utm_source", "IG"), Param("ref", "x"), Param("ch", "9")>>}

Init ==
    /\ pageQuery \in SeqQueries
    /\ UrlAtRest
    /\ pc = "load"
    /\ variant \in {"script", "part_000"}
    /\ ctaPresent \in BOOLEAN
    /\ ctaHref = ctaPresent
    /\ dataDestination = NoUrl
    /\ fbq \in {"undefined", "defined", "loaded"}
    /\ fbqThrows \in BOOLEAN
    /\ fbqHasQueue \in BOOLEAN
    /\ fbqCalls = NoCalls
    /\ attempts = 0
    /\ pollTimer = Off
    /\ waitPromise = "pending"
    /\ setupPromise = "pending"
    /\ viewTimer = Off
    /\ dwellTimer = Off
    /\ leadTracked = FALSE
    /\ scrollThreshold = FALSE
    /\ timeThreshold = FALSE
    /\ engagementType = "none"
    /\ scrollListener = FALSE
    /\ clickListener = FALSE
    /\ clicks = <<>>
    /\ ignoredClicks = 0
    /\ navigations = <<>>
    /\ CountdownAtRest
    /\ CarouselAtRest
    /\ UtmAtRest

Next ==
    \/ init
    \/ PollFire
    \/ ViewContentFire
    \/ DwellFire
    \/ Scroll
    \/ CtaClick
    \/ CtaClickUnhandled
    \/ RedirectFire
    \/ FallbackFire
    \/ Tick
    \/ FbqDefined
    \/ FbqLoaded
    \/ PageUnload

Spec == Init /\ [][Next]_vars


-----------------------------------------------------------------------------
(* Properties of the sequencer, checked under Spec *)

RedirectTimers == {clicks[i].t300 : i \in 1..Len(clicks)}
                      \cup {clicks[i].t1000 : i \in 1..Len(clicks)}

\* C3: each handled CTA click performs the redirect exactly once: the
\* assignments to window.location.href are one per click whose closure has
\* redirected set, a click has redirected set as soon as either of its two
\* timers has run, and every assignment stores the CTA's data-destination.
C3_RedirectOncePerClick ==
    /\ Len(navigations) = Cardinality({i \in 1..Len(clicks) : clicks[i].redirected})
    /\ \A i \in 1..Len(clicks) :
          (clicks[i].t300 = Fired \/ clicks[i].t1000 = Fired) => clicks[i].redirected
    /\ \A n \in 1..Len(navigations) : navigations[n] = dataDestination

\* C3 witness: one click, both of its timers have run, one redirect was made
C3_Witness ==
    /\ Len(clicks) = 1
    /\ clicks[1].t300 = Fired
    /\ clicks[1].t1000 = Fired
    /\ Len(navigations) = 1
    /\ ~navigations[1].none

\* C4: over the page view the redirect is performed at most once in total,
\* for any number of CTA clicks
C4_AtMostOneNavigation == Len(navigations) <= 1

\* C5: a CTA activation always leads to a navigation: once no timer is pending
\* any more, a page on which the CTA has been activated has navigated
C5_ActivationNavigates ==
    (/\ ignoredClicks + Len(clicks) > 0
     /\ \A t \in SeqTimers : ~Pending(t))
        => navigations # <<>>

\* C6: the Lead event is sent at most once, and exactly once when both the
\* scroll threshold and the time threshold have become true
C6_LeadOnce ==
    /\ fbqCalls["Lead"] <= 1
    /\ (scrollThreshold /\ timeThreshold) => fbqCalls["Lead"] = 1
    /\ leadTracked <=> fbqCalls["Lead"] = 1

\* C6 witness: both thresholds are true and one Lead was sent
C6_Witness ==
    /\ scrollThreshold
    /\ timeThreshold
    /\ fbqCalls["Lead"] = 1

\* C7: when the readiness poll is exhausted, no call to the tracking function
\* is ever made on that page view and the promise init receives is fulfilled,
\* not rejected
C7_ExhaustedPollTracksNothing ==
    waitPromise = "rejected" =>
        /\ \A n \in EventNames : fbqCalls[n] = 0
        /\ setupPromise = "fulfilled"
        /\ attempts = maxAttempts

\* C7 witness: the poll was exhausted, the library reported loaded afterwards
\* and the CTA was activated
C7_Witness ==
    /\ waitPromise = "rejected"
    /\ attempts = maxAttempts
    /\ fbq = "loaded"
    /\ ignoredClicks > 0

\* C8: with a tracking function that throws on every invocation, a Ready
\* sequencer still has its ViewContent and dwell timers scheduled and its
\* scroll and click listeners registered, every click handler run has
\* scheduled both redirect timers, and a click whose 300 ms timer ran has
\* navigated
C8_ThrowingTrackerNonFatal ==
    (fbqThrows /\ waitPromise = "resolved" /\ ctaPresent) =>
        /\ clickListener
        /\ scrollListener \/ leadTracked
        /\ pc = "run" => (viewTimer # Off /\ dwellTimer # Off)
        /\ fbqCalls["AddToCart"] = Len(clicks) * (IF fbqHasQueue THEN 2 ELSE 1)
        /\ pc = "run" => \A t \in RedirectTimers : t # Off
        /\ \A i \in 1..Len(clicks) : clicks[i].t300 = Fired => navigations # <<>>

\* C8 witness: the tracking function throws, ViewContent and Lead were
\* attempted and a click has navigated
C8_Witness ==
    /\ fbqThrows
    /\ fbqCalls["ViewContent"] = 1
    /\ fbqCalls["Lead"] = 1
    /\ fbqCalls["AddToCart"] > 0
    /\ navigations # <<>>


-----------------------------------------------------------------------------
(* buildTrackedUrl on drawn inputs *)

SeqsUpTo(S, n) == UNION {[1..m -> S] : m \in 0..n}

\* the keys and values page queries are drawn from: the whitelist and one
\* key outside it
SourceKeys == {allowedParams[i] : i \in 1..Len(allowedParams)} \cup {"foo"}
SourceValues == {"", "9", "a b&c"}
Sources == SeqsUpTo({Param(k, v) : k \in SourceKeys, v \in SourceValues}, MaxSourceParams)

\* the destination templates buildTrackedUrl is applied to
Templates ==
    {DestinationScript,
     DestinationPart000,
     Url("https://d.example", <<>>),
     Url("https://d.example", <<Param("ch", "1")>>),
     Url("https://d.example", <<Param("utm_source", "1"), Param("foo", "1")>>),
     Url("https://d.example", <<Param("ch", "1"), Param("gclid", ""), Param("ch", "2")>>),
     Url("https://d.example", <<Param("ch", "1=2+3%")>>)}

UrlInit ==
    /\ pageQuery \in Sources
    /\ baseUrl \in Templates
    /\ trackedUrl = NoUrl
    /\ SeqAtRest
    /\ CountdownAtRest
    /\ CarouselAtRest
    /\ UtmAtRest

\* const tracked = buildTrackedUrl(baseUrl, params)
CallBuildTrackedUrl ==
    /\ trackedUrl.none
    /\ trackedUrl' = buildTrackedUrl(baseUrl, pageQuery)
    /\ UNCHANGED <<pageQuery, baseUrl, pageVars, seqVars, countdownVars, carouselVars, utmVars>>

UrlNext == CallBuildTrackedUrl

UrlSpec == UrlInit /\ [][UrlNext]_vars

Whitelist == {"utm_source", "utm_medium", "utm_campaign", "utm_term", "utm_content",
              "fbclid", "gclid", "ch", "fbPixelId"}

\* C1: in the URL buildTrackedUrl returns, a whitelisted key carries exactly
\* the first value the page query gives it when the page query has the key and
\* the template does not define it, and otherwise exactly what the template
\* carries for it; a key outside the whitelist carries exactly what the
\* template carries for it
C1_WhitelistMerge ==
    ~trackedUrl.none =>
        /\ trackedUrl.origin = baseUrl.origin
        /\ \A k \in Whitelist :
              IF Has(pageQuery, k) /\ ~Has(baseUrl.params, k)
              THEN GetAll(trackedUrl.params, k) = <<Head(GetAll(pageQuery, k))>>
              ELSE GetAll(trackedUrl.params, k) = GetAll(baseUrl.params, k)
        /\ \A k \in (KeysOf(pageQuery) \cup KeysOf(baseUrl.params)
                        \cup KeysOf(trackedUrl.params)) \ Whitelist :
              GetAll(trackedUrl.params, k) = GetAll(baseUrl.params, k)

\* C1 witness: template ?ch=1, page query ?utm_source=9&foo=9, result
\* ?ch=1&utm_source=9
C1_Witness ==
    /\ baseUrl.params = <<Param("ch", "1")>>
    /\ pageQuery = <<Param("utm_source", "9"), Param("foo", "9")>>
    /\ ~trackedUrl.none
    /\ trackedUrl.params = <<Param("ch", "1"), Param("utm_source", "9")>>

\* C2: every key the template defines carries in the result exactly the
\* template's values, and the template's parameters come first, unchanged
C2_TemplateValuesKept ==
    ~trackedUrl.none =>
        /\ \A k \in KeysOf(baseUrl.params) :
              GetAll(trackedUrl.params, k) = GetAll(baseUrl.params, k)
        /\ Len(trackedUrl.params) >= Len(baseUrl.params)
        /\ SubSeq(trackedUrl.params, 1, Len(baseUrl.params)) = baseUrl.params

\* C2 witness: template ?ch=1, page query ?ch=9, result keeps ch=1
C2_Witness ==
    /\ baseUrl.params = <<Param("ch", "1")>>
    /\ pageQuery = <<Param("ch", "9")>>
    /\ ~trackedUrl.none
    /\ Get(trackedUrl.params, "ch") = "1"


-----------------------------------------------------------------------------
(* startCountdown *)

\* JavaScript's % : the remainder takes the sign of the dividend
JsRem(a, b) == IF a >= 0 THEN a % b ELSE 0 - ((0 - a) % b)

DigitChars == <<"0", "1", "2", "3", "4", "5", "6", "7", "8", "9">>

\* Number.prototype.toString for an integer
RECURSIVE NatToString(_)
NatToString(n) ==
    IF n < 10 THEN DigitChars[n + 1]
    ELSE NatToString(n \div 10) \o DigitChars[(n % 10) + 1]

IntToString(n) == IF n < 0 THEN "-" \o NatToString(0 - n) ELSE NatToString(n)

\* a faulty display: the numbers are not padded
PadStartNone(str) == str

\* String.prototype.padStart(2, '0')
PadStart2(str) == IF Len(str) < 2 THEN "0" \o str ELSE str

\* updateDisplay, for the value of timeLeft given
updateDisplay(t) ==
    LET hours == t \div 3600
        minutes == JsRem(t, 3600) \div 60
        seconds == JsRem(t, 60)
    IN [hours |-> PadStart2(IntToString(hours)),
        minutes |-> PadStart2(IntToString(minutes)),
        seconds |-> PadStart2(IntToString(seconds))]

AllSlots == {"hours", "minutes", "seconds"}

FullDay == 24 * 60 * 60

\* a faulty guard: return only when all three slots are missing
SlotsMissingAll(found) == found = {}

\* if (!hoursEl || !minutesEl || !secondsEl) return
SlotsMissing(found) == found # AllSlots

\* the body of startCountdown: the guard, the initial display, setInterval
startCountdownBody ==
    IF SlotsMissing(slots)
    THEN UNCHANGED <<display, countdownTimer>>
    ELSE /\ display' = updateDisplay(timeLeft)
         /\ countdownTimer' = TRUE

startCountdown ==
    /\ pc = "load"
    /\ pc' = "run"
    /\ startCountdownBody
    /\ UNCHANGED <<urlVars, variant, ctaPresent, ctaHref, dataDestination, fbq,
                   fbqThrows, fbqHasQueue, fbqCalls, seqVars, timeLeft, slots,
                   lastTick, carouselVars, utmVars>>

\* a faulty test: timeLeft < 0
TickWrapsBelowZero(t) == t < 0

\* tick: if (timeLeft <= 0)
TickWraps(t) == t <= 0

\* setInterval(tick, 1000) fires
tick ==
    /\ countdownTimer
    /\ lastTick' = timeLeft
    /\ timeLeft' = IF TickWraps(timeLeft) THEN FullDay ELSE timeLeft - 1
    /\ display' = updateDisplay(timeLeft')
    /\ UNCHANGED <<urlVars, pageVars, seqVars, slots, countdownTimer, carouselVars, utmVars>>

CountdownInit ==
    /\ pageQuery = <<>>
    /\ UrlAtRest
    /\ SeqAtRest
    /\ timeLeft = FullDay
    /\ slots \in SUBSET AllSlots
    /\ display = NoDisplay
    /\ countdownTimer = FALSE
    /\ lastTick = NoTick
    /\ CarouselAtRest
    /\ UtmAtRest

CountdownNext == startCountdown \/ tick

CountdownSpec == CountdownInit /\ [][CountdownNext]_vars

\* C9: a tick that finds timeLeft at 0 leaves it at 86400, a tick that finds
\* it above 0 leaves it one lower, and timeLeft is never negative
C9_CountdownWraps ==
    /\ timeLeft >= 0
    /\ lastTick # NoTick =>
          /\ lastTick = 0 => timeLeft = 86400
          /\ lastTick > 0 => timeLeft = lastTick - 1

\* C9 witness: the tick that found timeLeft at 0 has run
C9_Witness ==
    /\ lastTick = 0
    /\ timeLeft = 86400
    /\ display = [hours |-> "24", minutes |-> "00", seconds |-> "00"]


-----------------------------------------------------------------------------
(* initCarousel.  Carousel time is counted in steps of 1000 ms: the only    *)
(* delay of the carousel is the 6000 ms of setInterval(nextImage, 6000).    *)

AutoRotateDelay == 6000
RotateSteps == AutoRotateDelay \div 1000

\* nextImage: (currentIndex + 1) % images.length
NextIndex(i, n) == JsRem(i + 1, n)

\* a faulty prevImage: (currentIndex - 1) % images.length
PrevIndexNoWrap(i, n) == JsRem(i - 1, n)

\* prevImage: (currentIndex - 1 + images.length) % images.length
PrevIndex(i, n) == JsRem(i - 1 + n, n)

\* the latest two navigation steps
Remember(op) ==
    LET h == Append(carouselHist, [op |-> op, from |-> currentIndex])
    IN IF Len(h) > 2 THEN Tail(h) ELSE h

showImage(index) ==
    /\ imageActive' = IF index >= 0 /\ index < nImages THEN {index} ELSE {}
    /\ indicatorActive' = IF index >= 0 /\ index < nIndicators THEN {index} ELSE {}
    /\ currentIndex' = index

nextImage ==
    /\ showImage(NextIndex(currentIndex, nImages))
    /\ carouselHist' = Remember("next")

prevImage ==
    /\ showImage(PrevIndex(currentIndex, nImages))
    /\ carouselHist' = Remember("prev")

\* clearInterval(autoRotateInterval): the live intervals left
Cleared(live) == [h \in DOMAIN live \ {autoRotateInterval} |-> live[h]]

\* setInterval(nextImage, 6000) returning handle nextHandle
Started(live) == [h \in DOMAIN live \cup {nextHandle} |->
                     IF h = nextHandle THEN RotateSteps ELSE live[h]]

startAutoRotation ==
    /\ nextHandle <= MaxHandles
    /\ autoRotateInterval' = nextHandle
    /\ liveIntervals' = Started(liveIntervals)
    /\ nextHandle' = nextHandle + 1

stopAutoRotation ==
    /\ liveIntervals' = Cleared(liveIntervals)
    /\ UNCHANGED <<autoRotateInterval, nextHandle>>

resetAutoRotation ==
    /\ nextHandle <= MaxHandles
    /\ autoRotateInterval' = nextHandle
    /\ liveIntervals' = Started(Cleared(liveIntervals))
    /\ nextHandle' = nextHandle + 1

carouselRest == <<urlVars, pageVars, seqVars, countdownVars, utmVars, nImages,
                  nIndicators, carouselDom>>

\* a faulty guard: return only when both lists are empty
NothingToRotateBoth(images, indicators) == images = 0 /\ indicators = 0

\* if (!images.length || !indicators.length) return
NothingToRotate(images, indicators) == images = 0 \/ indicators = 0

initCarousel ==
    /\ pc = "load"
    /\ pc' = "run"
    /\ IF NothingToRotate(nImages, nIndicators)
       THEN UNCHANGED <<carouselOn, autoRotateInterval, liveIntervals, nextHandle>>
       ELSE /\ carouselOn' = TRUE
            /\ startAutoRotation
    /\ UNCHANGED <<urlVars, variant, ctaPresent, ctaHref, dataDestination, fbq,
                   fbqThrows, fbqHasQueue, fbqCalls, seqVars, countdownVars,
                   nImages, nIndicators, currentIndex, imageActive, indicatorActive,
                   hovered, carouselDom, carouselHist, sinceNav, utmVars>>

LeftArrowClick ==
    /\ carouselOn
    /\ carouselDom.leftArrow
    /\ prevImage
    /\ resetAutoRotation
    /\ sinceNav' = 0
    /\ UNCHANGED <<carouselRest, carouselOn, hovered>>

RightArrowClick ==
    /\ carouselOn
    /\ carouselDom.rightArrow
    /\ nextImage
    /\ resetAutoRotation
    /\ sinceNav' = 0
    /\ UNCHANGED <<carouselRest, carouselOn, hovered>>

IndicatorClick ==
    /\ carouselOn
    /\ \E index \in 0..(nIndicators - 1) :
          /\ showImage(index)
          /\ carouselHist' = Remember("show")
    /\ resetAutoRotation
    /\ sinceNav' = 0
    /\ UNCHANGED <<carouselRest, carouselOn, hovered>>

Keys == {"ArrowLeft", "ArrowRight", "Enter"}

KeyDown ==
    /\ carouselOn
    /\ \E key \in Keys :
          IF key = "ArrowLeft" THEN prevImage /\ resetAutoRotation /\ sinceNav' = 0
          ELSE IF key = "ArrowRight" THEN nextImage /\ resetAutoRotation /\ sinceNav' = 0
          ELSE UNCHANGED <<currentIndex, imageActive, indicatorActive, carouselHist,
                           autoRotateInterval, liveIntervals, nextHandle, sinceNav>>
    /\ UNCHANGED <<carouselRest, carouselOn, hovered>>

MouseEnter ==
    /\ carouselOn
    /\ carouselDom.container
    /\ ~hovered
    /\ hovered' = TRUE
    /\ stopAutoRotation
    /\ UNCHANGED <<carouselRest, carouselOn, currentIndex, imageActive,
                   indicatorActive, carouselHist, sinceNav>>

MouseLeave ==
    /\ carouselOn
    /\ carouselDom.container
    /\ hovered
    /\ hovered' = FALSE
    /\ startAutoRotation
    /\ UNCHANGED <<carouselRest, carouselOn, currentIndex, imageActive,
                   indicatorActive, carouselHist, sinceNav>>

\* a live interval expires: nextImage runs and the interval starts over
IntervalFire ==
    /\ \E h \in DOMAIN liveIntervals :
          /\ Due(liveIntervals[h])
          /\ liveIntervals' = [liveIntervals EXCEPT ![h] = RotateSteps]
    /\ nextImage
    /\ UNCHANGED <<carouselRest, carouselOn, hovered, autoRotateInterval, nextHandle,
                   sinceNav>>

\* 1000 ms pass: no interval is due, some interval is live
CarouselTick ==
    /\ DOMAIN liveIntervals # {}
    /\ \A h \in DOMAIN liveIntervals : ~Due(liveIntervals[h])
    /\ liveIntervals' = [h \in DOMAIN liveIntervals |-> liveIntervals[h] - 1]
    /\ sinceNav' = IF sinceNav = Never \/ sinceNav >= RotateSteps
                   THEN sinceNav ELSE sinceNav + 1
    /\ UNCHANGED <<carouselRest, carouselOn, hovered, autoRotateInterval, nextHandle,
                   currentIndex, imageActive, indicatorActive, carouselHist>>

\* the class 'active' as the page's markup may carry it before any script runs
InitialActive(n) == IF n = 0 THEN {{}} ELSE {{}, {0}}

CarouselInit ==
    /\ pageQuery = <<>>
    /\ UrlAtRest
    /\ SeqAtRest
    /\ CountdownAtRest
    /\ nImages \in 0..MaxImages
    /\ nIndicators \in 0..MaxImages
    /\ currentIndex = 0
    /\ imageActive \in InitialActive(nImages)
    /\ indicatorActive \in InitialActive(nIndicators)
    /\ autoRotateInterval = NoHandle
    /\ liveIntervals = <<>>
    /\ nextHandle = 1
    /\ carouselOn = FALSE
    /\ hovered \in BOOLEAN
    /\ carouselDom \in [leftArrow : BOOLEAN, rightArrow : BOOLEAN, container : BOOLEAN]
    /\ carouselHist = <<>>
    /\ sinceNav = Never
    /\ UtmAtRest

CarouselNext ==
    \/ initCarousel
    \/ LeftArrowClick
    \/ RightArrowClick
    \/ IndicatorClick
    \/ KeyDown
    \/ MouseEnter
    \/ MouseLeave
    \/ IntervalFire
    \/ CarouselTick

CarouselSpec == CarouselInit /\ [][CarouselNext]_vars

InRange(i) == i >= 0 /\ i < nImages

\* C10: from an index i in 0..N-1, nextImage leaves the index at i + 1, or at
\* 0 when i = N-1, and prevImage leaves it at i - 1, or at N-1 when i = 0; a
\* nextImage followed by a prevImage, or a prevImage followed by a nextImage,
\* leaves the index where it was
C10_IndexWraps ==
    /\ Len(carouselHist) >= 1 =>
          LET last == carouselHist[Len(carouselHist)]
          IN InRange(last.from) =>
                /\ last.op = "next" =>
                      currentIndex = IF last.from = nImages - 1 THEN 0 ELSE last.from + 1
                /\ last.op = "prev" =>
                      currentIndex = IF last.from = 0 THEN nImages - 1 ELSE last.from - 1
    /\ Len(carouselHist) = 2 =>
          LET a == carouselHist[1]
              b == carouselHist[2]
          IN (InRange(a.from) /\ {a.op, b.op} = {"next", "prev"}) => currentIndex = a.from

\* C10 witness: with three images, next from index 2 gave 0 and prev from 0
\* gave 2
C10_Witness ==
    /\ nImages = 3
    /\ carouselHist = <<[op |-> "next", from |-> 2], [op |-> "prev", from |-> 0]>>
    /\ currentIndex = 2

\* C11: after any sequence of carousel operations exactly one image and
\* exactly one indicator carry the class 'active', both at position
\* currentIndex
C11_OneActivePair ==
    carouselHist # <<>> =>
        /\ Cardinality(imageActive) = 1
        /\ Cardinality(indicatorActive) = 1
        /\ imageActive = {currentIndex}
        /\ indicatorActive = {currentIndex}

\* C12: a manual navigation cancels the running auto-rotation timer before it
\* schedules a new one, so that nextImage is not run by an interval before
\* 6000 ms have passed since the navigation
C12_NoEarlyAdvance ==
    \A h \in DOMAIN liveIntervals :
        (sinceNav # Never /\ Due(liveIntervals[h])) => sinceNav >= RotateSteps

\* C13: from a mouseenter until the next mouseleave no interval is live,
\* whatever other handler runs in between, and the mouseleave schedules an
\* interval with its full 6000 ms
C13_HoverPauses ==
    [][/\ (carouselOn /\ ~hovered /\ hovered') => liveIntervals' = <<>>
       /\ (carouselOn /\ hovered /\ hovered' /\ liveIntervals = <<>>) =>
             liveIntervals' = <<>>
       /\ (carouselOn /\ hovered /\ ~hovered') =>
             /\ autoRotateInterval' \in DOMAIN liveIntervals'
             /\ liveIntervals'[autoRotateInterval'] = RotateSteps]_vars

\* C14: with no image or no indicator initCarousel registers no listener,
\* schedules no interval and leaves every element as the markup had it
C14_EmptyCarouselInert ==
    (pc = "run" /\ (nImages = 0 \/ nIndicators = 0)) =>
        /\ ~carouselOn
        /\ liveIntervals = <<>>
        /\ autoRotateInterval = NoHandle
        /\ nextHandle = 1
        /\ currentIndex = 0
        /\ carouselHist = <<>>
        /\ ~ENABLED (LeftArrowClick \/ RightArrowClick \/ IndicatorClick \/ KeyDown
                      \/ MouseEnter \/ MouseLeave \/ IntervalFire \/ CarouselTick)

\* C14 witness: initCarousel has run on a page with images whose first one is
\* marked active, and with no indicator
C14_Witness ==
    /\ pc = "run"
    /\ nImages = 2
    /\ nIndicators = 0
    /\ imageActive = {0}
    /\ carouselDom.container

-----------------------------------------------------------------------------
(* The readiness poll, the ViewContent timer and the redirect of a click *)

\* C17: waitForFbq makes at most maxAttempts checks, the first at once and
\* each later one when the 100 ms timer of the check before it expires; its
\* promise settles once, resolved by a check that sees the library loaded,
\* rejected by the maxAttempts-th check that does not; after it settled no
\* check runs and none is scheduled
C17_PollTerminates ==
    [][/\ attempts' <= maxAttempts
       /\ attempts' \in {attempts, attempts + 1}
       /\ attempts' = attempts + 1 => (pc = "load" \/ Due(pollTimer))
       /\ pollTimer' <= Steps(interval)
       /\ (pc' = "run" /\ waitPromise' = "pending") =>
             (Pending(pollTimer') /\ attempts' < maxAttempts)
       /\ (waitPromise = "pending" /\ waitPromise' = "resolved") =>
             (fbq = "loaded" /\ attempts' = attempts + 1)
       /\ (waitPromise = "pending" /\ waitPromise' = "rejected") =>
             (fbq # "loaded" /\ attempts' = maxAttempts)
       /\ waitPromise' # "pending" => pollTimer' = Off
       /\ waitPromise # "pending" =>
             (waitPromise' = waitPromise /\ attempts' = attempts)]_vars

\* C17 witness: the promise resolved at the second check, 100 ms after the
\* first one, and no check is scheduled
C17_Witness ==
    /\ waitPromise = "resolved"
    /\ attempts = 2
    /\ pollTimer = Off

\* the sequencer is Ready: the poll resolved and the CTA was found
Ready == waitPromise = "resolved" /\ ctaPresent

\* steps since Ready, read off the dwell timer scheduled in the same run
SinceReady == Steps(DwellDelay) - dwellTimer

SinceClick(c) == Steps(FallbackDelay) - c.t1000

\* C19: every handled click has invoked AddToCart in its handler, before any
\* navigation; its navigation to the stored destination happens when the
\* 300 ms delay has passed, not earlier, and not later than the 1000 ms
\* fallback, whether or not the tracking call threw
C19_TrackThenNavigate ==
    /\ fbqCalls["AddToCart"] >= Len(clicks)
    /\ Len(navigations) <= Len(clicks)
    /\ \A n \in 1..Len(navigations) : navigations[n] = dataDestination
    /\ \A i \in 1..Len(clicks) :
          LET c == clicks[i]
          IN /\ c.redirected => (c.t300 = Fired /\ navigations # <<>>)
             /\ c.t1000 = Fired => c.redirected
             /\ (pc = "run" /\ Pending(c.t1000)) =>
                   /\ SinceClick(c) < Steps(RedirectDelay) =>
                         (~c.redirected /\ c.t300 = Steps(RedirectDelay) - SinceClick(c))
                   /\ SinceClick(c) > Steps(RedirectDelay) => c.redirected

\* C19 witness: with a tracking function that throws, a click was tracked
\* and its navigation happened 300 ms later
C19_Witness ==
    /\ fbqThrows
    /\ pc = "run"
    /\ Len(clicks) = 1
    /\ fbqCalls["AddToCart"] >= 1
    /\ clicks[1].redirected
    /\ SinceClick(clicks[1]) = Steps(RedirectDelay)
    /\ navigations = <<dataDestination>>

-----------------------------------------------------------------------------
(* Strings and plain objects.  A string is a TLA+ string, read character by *)
(* character; an object is the ordered list of its own properties.          *)

UpperCase == "ABCDEFGHIJKLMNOPQRSTUVWXYZ"
LowerCase == "abcdefghijklmnopqrstuvwxyz"

CharAt(s, i) == SubSeq(s, i, i)

LowerChar(c) ==
    IF \E i \in 1..Len(UpperCase) : CharAt(UpperCase, i) = c
    THEN CharAt(LowerCase, CHOOSE i \in 1..Len(UpperCase) : CharAt(UpperCase, i) = c)
    ELSE c

\* String.prototype.toLowerCase
toLowerCase(s) ==
    LET F[i \in 0..Len(s)] ==
            IF i = 0 THEN "" ELSE F[i - 1] \o LowerChar(CharAt(s, i))
    IN F[Len(s)]

\* String.prototype.includes
includes(s, needle) ==
    \E i \in 1..(Len(s) - Len(needle) + 1) : SubSeq(s, i, i + Len(needle) - 1) = needle

\* obj[key] = value: the property keeps its place, a new one comes last
Assign(obj, key, value) ==
    IF Has(obj, key)
    THEN [i \in 1..Len(obj) |-> IF obj[i].k = key THEN Param(key, value) ELSE obj[i]]
    ELSE Append(obj, Param(key, value))

\* obj[key] is truthy: present and not the empty string
Truthy(obj, key) == Has(obj, key) /\ Get(obj, key) # ""

\* { ...target, ...source }
Spread(target, source) ==
    LET F[i \in 0..Len(source)] ==
            IF i = 0 THEN target ELSE Assign(F[i - 1], source[i].k, source[i].v)
    IN F[Len(source)]

-----------------------------------------------------------------------------
(* getUtmParameters *)

utmKeys == <<"utm_source", "utm_medium", "utm_campaign", "utm_term", "utm_content">>

\* new Date().toISOString(), the same instant at every call
Timestamp == "2026-01-01T00:00:00.000Z"

\* a faulty extraction: every parameter of the page query is copied
CopyAllParams(search) ==
    LET F[i \in 0..Len(search)] ==
            IF i = 0 THEN <<>> ELSE Assign(F[i - 1], search[i].k, Get(search, search[i].k))
    IN F[Len(search)]

\* utmKeys.forEach(key => { if (params.has(key)) utmParams[key] = params.get(key) })
CopyUtmKeys(search) ==
    LET F[i \in 0..Len(utmKeys)] ==
            IF i = 0 THEN <<>>
            ELSE IF Has(search, utmKeys[i])
            THEN Assign(F[i - 1], utmKeys[i], Get(search, utmKeys[i]))
            ELSE F[i - 1]
    IN F[Len(utmKeys)]

\* utmParams.utm_source = source; utmParams.utm_medium = utmParams.utm_medium || medium
Detected(utmParams, source, medium) ==
    Assign(Assign(utmParams, "utm_source", source), "utm_medium",
           IF Truthy(utmParams, "utm_medium") THEN Get(utmParams, "utm_medium") ELSE medium)

\* a faulty test: the referrer is consulted whatever the page URL carries
SourceGivenNever(utmParams) == FALSE

\* the test that keeps the referrer out: if (!utmParams.utm_source && ...)
SourceGiven(utmParams) == Truthy(utmParams, "utm_source")

\* the auto-detection from document.referrer, when utm_source is not set
AutoDetect(utmParams, ref) ==
    IF SourceGiven(utmParams)
    THEN utmParams
    ELSE LET r == toLowerCase(ref)
         IN IF includes(r, "instagram.com") \/ includes(r, "ig.me")
            THEN Detected(utmParams, "instagram", "social")
            ELSE IF includes(r, "facebook.com") \/ includes(r, "fb.me")
            THEN Detected(utmParams, "facebook", "social")
            ELSE IF includes(r, "youtube.com") \/ includes(r, "twitch.tv")
                    \/ includes(r, "live")
            THEN Detected(utmParams, "livestream", "video")
            ELSE utmParams

getUtmParameters(search, ref) ==
    LET utmParams == AutoDetect(CopyUtmKeys(search), ref)
    IN IF Len(utmParams) > 0
       THEN Assign(utmParams, "tracking_timestamp", Timestamp)
       ELSE utmParams

-----------------------------------------------------------------------------
(* getTrafficSourceInfo *)

Undefined == "\\undefined"

sourceConfigs ==
    [livestream |-> [icon |-> "U+1F3A5", name |-> "Live Stream",
                     recommended_medium |-> "video",
                     recommended_campaign |-> "live_promo"],
     instagram |-> [icon |-> "U+1F4F8", name |-> "Instagram",
                    recommended_medium |-> "social",
                    recommended_campaign |-> "ig_promo"],
     facebook |-> [icon |-> "U+1F465", name |-> "Facebook",
                   recommended_medium |-> "social",
                   recommended_campaign |-> "fb_promo"],
     direct |-> [icon |-> "U+1F517", name |-> "Direct",
                 recommended_medium |-> "direct",
                 recommended_campaign |-> "direct_visit"]]

\* sourceConfigs[primarySource] || sourceConfigs.direct; the lookup also finds
\* what an object literal inherits: the function Object under 'constructor'
\* and Object.prototype under '__proto__'
SourceDetails(primarySource) ==
    IF primarySource \in DOMAIN sourceConfigs THEN sourceConfigs[primarySource]
    ELSE IF primarySource = "constructor"
    THEN [icon |-> Undefined, name |-> "Object", recommended_medium |-> Undefined,
          recommended_campaign |-> Undefined]
    ELSE IF primarySource = "__proto__"
    THEN [icon |-> Undefined, name |-> Undefined, recommended_medium |-> Undefined,
          recommended_campaign |-> Undefined]
    ELSE sourceConfigs["direct"]

\* a faulty classification: utm_source is taken as it is written
PrimaryFromUtmRaw(source) == source

\* primarySource = utmParams.utm_source.toLowerCase()
PrimaryFromUtm(source) == toLowerCase(source)

\* the classification by document.referrer, as it is written
PrimaryFromReferrer(ref) ==
    IF includes(ref, "instagram") THEN "instagram"
    ELSE IF includes(ref, "facebook") THEN "facebook"
    ELSE IF includes(ref, "youtube") \/ includes(ref, "twitch") THEN "livestream"
    ELSE "referral"

getTrafficSourceInfo(search, ref) ==
    LET utmParams == getUtmParameters(search, ref)
        primarySource ==
            IF Truthy(utmParams, "utm_source")
            THEN PrimaryFromUtm(Get(utmParams, "utm_source"))
            ELSE IF ref # "" THEN PrimaryFromReferrer(ref)
            ELSE "direct"
    IN [none |-> FALSE,
        primarySource |-> primarySource,
        sourceDetails |-> SourceDetails(primarySource),
        utmParams |-> utmParams,
        currentUrl |-> search,
        referrer |-> ref,
        isTracked |-> Len(utmParams) > 0]

-----------------------------------------------------------------------------
(* The event payloads of setupMetaPixelTracking: an object literal whose    *)
(* last member spreads utmParams.  The number 1.00 is written "1".          *)

pageViewLiteral(info) ==
    <<Param("content_name", "PopDez Landing Page"),
      Param("content_category", "Gaming Landing"),
      Param("content_type", "website"),
      Param("currency", "BRL"),
      Param("traffic_source", info.primarySource),
      Param("source_name", info.sourceDetails.name),
      Param("page_title", "document.title"),
      Param("page_url", "window.location.href")>>

viewContentLiteral(info) ==
    <<Param("content_name", "PopDez Landing Page"),
      Param("content_category", "Gaming Landing"),
      Param("content_type", "product"),
      Param("currency", "BRL"),
      Param("traffic_source", info.primarySource),
      Param("source_name", info.sourceDetails.name)>>

leadLiteral(info, scrolled) ==
    <<Param("content_name", "PopDez Interest"),
      Param("content_category", "Gaming Lead"),
      Param("currency", "BRL"),
      Param("traffic_source", info.primarySource),
      Param("source_name", info.sourceDetails.name),
      Param("engagement_type", IF scrolled THEN "scroll" ELSE "time")>>

addToCartLiteral(info) ==
    <<Param("content_name", "PopDez Bonus Exclusivo"),
      Param("content_category", "Gaming Bonus"),
      Param("content_type", "product"),
      Param("currency", "BRL"),
      Param("value", "1"),
      Param("traffic_source", info.primarySource),
      Param("source_name", info.sourceDetails.name),
      Param("conversion_step", "cta_click")>>

\* the members written before ...utmParams in the payload of event name
Literal(name, info, scrolled) ==
    IF name = "PageView" THEN pageViewLiteral(info)
    ELSE IF name = "ViewContent" THEN viewContentLiteral(info)
    ELSE IF name = "Lead" THEN leadLiteral(info, scrolled)
    ELSE addToCartLiteral(info)

\* { ...literal, ...utmParams }
EventData(name, info, scrolled) == Spread(Literal(name, info, scrolled), info.utmParams)

-----------------------------------------------------------------------------
(* getTrafficSourceInfo and the payloads on drawn page queries and referrers *)

\* page queries of the traffic model carry at most this many parameters
MaxUtmParams == 2

\* three UTM keys and two keys that are names of payload members
UtmQueryKeys == {"utm_source", "utm_medium", "utm_campaign", "content_name",
                 "traffic_source"}
UtmQueryValues == {"", "IG", "google", "constructor"}
UtmQueries ==
    SeqsUpTo({Param(k, v) : k \in UtmQueryKeys, v \in UtmQueryValues}, MaxUtmParams)

Referrers ==
    {"",
     "https://l.instagram.com/",
     "https://m.facebook.com/",
     "https://www.youtube.com/",
     "https://www.google.com/",
     "https://olive.example/",
     "https://x.example/Instagram.com",
     "https://instagram.example/"}

TrafficInit ==
    /\ pageQuery \in UtmQueries
    /\ UrlAtRest
    /\ SeqAtRest
    /\ CountdownAtRest
    /\ CarouselAtRest
    /\ referrer \in Referrers
    /\ trafficInfo = NoInfo
    /\ eventData = NoEvent
    /\ sessionStorage = NoItem
    /\ storageThrows = FALSE
    /\ keepTimer = Off
    /\ utmPhase = "none"

\* const trafficInfo = getTrafficSourceInfo()
CallGetTrafficSourceInfo ==
    /\ trafficInfo.none
    /\ trafficInfo' = getTrafficSourceInfo(pageQuery, referrer)
    /\ UNCHANGED <<urlVars, pageVars, seqVars, countdownVars, carouselVars, referrer,
                   eventData, sessionStorage, storageThrows, keepTimer, utmPhase>>

\* one of the payloads is built: pageViewData, viewContentData, leadData with
\* scrollThreshold as it is then, or addToCartData
BuildEventData ==
    /\ ~trafficInfo.none
    /\ \E name \in EventNames, scrolled \in BOOLEAN :
          /\ scrolled => name = "Lead"
          /\ eventData' = [none |-> FALSE, name |-> name, scrolled |-> scrolled,
                           data |-> EventData(name, trafficInfo, scrolled)]
    /\ UNCHANGED <<urlVars, pageVars, seqVars, countdownVars, carouselVars, referrer,
                   trafficInfo, sessionStorage, storageThrows, keepTimer, utmPhase>>

TrafficNext ==
    \/ CallGetTrafficSourceInfo
    \/ BuildEventData

TrafficSpec == TrafficInit /\ [][TrafficNext]_vars

TrafficClasses == {"direct", "instagram", "facebook", "livestream", "referral"}

\* C15 as claimed: for every page query and referrer the classification is
\* one of direct, instagram, facebook, livestream, referral
C15_FiveClasses ==
    ~trafficInfo.none => trafficInfo.primarySource \in TrafficClasses

\* C15: the classification is the page query's utm_source in lower case when
\* the query carries a non-empty utm_source, and otherwise one of direct,
\* instagram, facebook, livestream, referral
C15_ClassOrUtmSource ==
    ~trafficInfo.none =>
        IF Has(pageQuery, "utm_source") /\ Get(pageQuery, "utm_source") # ""
        THEN \/ /\ Get(pageQuery, "utm_source") = "IG"
                /\ trafficInfo.primarySource = "ig"
             \/ /\ Get(pageQuery, "utm_source") \in {"google", "constructor"}
                /\ trafficInfo.primarySource = Get(pageQuery, "utm_source")
        ELSE trafficInfo.primarySource \in TrafficClasses

\* C15 witness: utm_source=IG was classified as ig
C15_Witness ==
    /\ ~trafficInfo.none
    /\ Has(pageQuery, "utm_source")
    /\ Get(pageQuery, "utm_source") = "IG"
    /\ trafficInfo.primarySource = "ig"

\* C16: every payload carries the members of its literal with the literal's
\* values, among them the classification, and every entry of the UTM
\* mapping; for no page query and no referrer does the spread of the UTM
\* mapping change a member of the literal
C16_FixedFieldsKept ==
    ~eventData.none =>
        LET literal == Literal(eventData.name, trafficInfo, eventData.scrolled)
            utmParams == trafficInfo.utmParams
        IN /\ \A i \in 1..Len(literal) :
                 Get(eventData.data, literal[i].k) = literal[i].v
           /\ Get(eventData.data, "traffic_source") = trafficInfo.primarySource
           /\ \A i \in 1..Len(utmParams) :
                 Get(eventData.data, utmParams[i].k) = utmParams[i].v
           /\ KeysOf(literal) \cap KeysOf(utmParams) = {}
           /\ Len(eventData.data) = Len(literal) + Len(utmParams)

\* C16 witness: the page query names content_name and utm_source, and the
\* AddToCart payload has its own content_name and the query's utm_source
C16_Witness ==
    /\ ~eventData.none
    /\ eventData.name = "AddToCart"
    /\ Has(pageQuery, "content_name")
    /\ Get(pageQuery, "content_name") = "google"
    /\ Get(pageQuery, "utm_source") = "IG"
    /\ Get(eventData.data, "content_name") = "PopDez Bonus Exclusivo"
    /\ Get(eventData.data, "utm_source") = "IG"

-----------------------------------------------------------------------------
(* keepUtmInUrl of src/unnamed/part_000, run by init and then every 2000 ms. *)
(* Time is counted in steps of 1000 ms.                                      *)

KeepInterval == 2000
KeepSteps == KeepInterval \div 1000

\* JSON.stringify(currentUtm), as the stored item
JsonStringify(obj) == [none |-> FALSE, json |-> obj]

\* JSON.parse(storedUtm)
JsonParse(item) == item.json

\* the forEach of the restore branch: url.searchParams.set(key, utmParams[key])
\* for every key but tracking_timestamp whose value is truthy
RestoreKeys(search, utmParams) ==
    LET F[i \in 0..Len(utmParams)] ==
            IF i = 0 THEN search
            ELSE IF utmParams[i].k # "tracking_timestamp" /\ utmParams[i].v # ""
            THEN Set(F[i - 1], utmParams[i].k, utmParams[i].v)
            ELSE F[i - 1]
    IN F[Len(utmParams)]

\* the page URL carries a UTM key
HasUtmKey(search) == \E i \in 1..Len(utmKeys) : Has(search, utmKeys[i])

keepUtmInUrl ==
    LET currentUtm == getUtmParameters(pageQuery, referrer)
        hasUtmNow == Len(currentUtm) > 0
    IN /\ IF hasUtmNow
          THEN /\ sessionStorage' = IF storageThrows THEN sessionStorage
                                    ELSE JsonStringify(currentUtm)
               /\ UNCHANGED pageQuery
          ELSE IF storageThrows \/ sessionStorage.none
          THEN UNCHANGED <<pageQuery, sessionStorage>>
          ELSE /\ pageQuery' = RestoreKeys(pageQuery, JsonParse(sessionStorage))
               /\ UNCHANGED sessionStorage
       /\ utmPhase' = IF HasUtmKey(pageQuery') THEN "carried" ELSE "none"

keepRest == <<baseUrl, trackedUrl, variant, ctaPresent, ctaHref, dataDestination, fbq,
              fbqThrows, fbqHasQueue, fbqCalls, seqVars, countdownVars, carouselVars,
              referrer, trafficInfo, eventData, storageThrows>>

\* init of part_000: keepUtmInUrl(); setInterval(() => keepUtmInUrl(), 2000)
KeepInit ==
    /\ pc = "load"
    /\ pc' = "run"
    /\ keepUtmInUrl
    /\ keepTimer' = KeepSteps
    /\ UNCHANGED keepRest

\* the 2000 ms interval expires
KeepFire ==
    /\ pc = "run"
    /\ Due(keepTimer)
    /\ keepUtmInUrl
    /\ keepTimer' = KeepSteps
    /\ UNCHANGED <<pc, keepRest>>

\* 1000 ms pass
KeepTick ==
    /\ pc = "run"
    /\ keepTimer > 0
    /\ keepTimer' = keepTimer - 1
    /\ UNCHANGED <<pc, pageQuery, sessionStorage, utmPhase, keepRest>>

\* the parameters of search whose key is not in keys
WithoutKeys(search, keys) ==
    LET F[i \in 0..Len(search)] ==
            IF i = 0 THEN <<>>
            ELSE IF search[i].k \in keys THEN F[i - 1] ELSE Append(F[i - 1], search[i])
    IN F[Len(search)]

\* another script rewrites the URL in place (history.replaceState) and drops
\* some of its parameters
Rewrite ==
    /\ pc = "run"
    /\ \E keys \in SUBSET KeysOf(pageQuery) :
          /\ keys # {}
          /\ pageQuery' = WithoutKeys(pageQuery, keys)
    /\ utmPhase' = IF utmPhase = "carried" /\ ~HasUtmKey(pageQuery') THEN "removed"
                   ELSE utmPhase
    /\ UNCHANGED <<pc, sessionStorage, keepTimer, keepRest>>

KeepQueryKeys == {"utm_source", "utm_campaign", "ref"}
KeepQueryValues == {"", "IG"}
KeepQueries ==
    SeqsUpTo({Param(k, v) : k \in KeepQueryKeys, v \in KeepQueryValues}, MaxUtmParams)
KeepReferrers == {"", "https://l.instagram.com/", "https://www.google.com/"}

\* what an earlier page view of the same tab may have left in sessionStorage
EarlierItems ==
    {NoItem,
     JsonStringify(<<Param("utm_campaign", "IG"), Param("tracking_timestamp", Timestamp)>>)}

KeepInit0 ==
    /\ pageQuery \in KeepQueries
    /\ UrlAtRest
    /\ SeqAtRest
    /\ CountdownAtRest
    /\ CarouselAtRest
    /\ referrer \in KeepReferrers
    /\ trafficInfo = NoInfo
    /\ eventData = NoEvent
    /\ storageThrows \in BOOLEAN
    /\ sessionStorage \in IF storageThrows THEN {NoItem} ELSE EarlierItems
    /\ keepTimer = Off
    /\ utmPhase = "none"

KeepNext ==
    \/ KeepInit
    \/ KeepFire
    \/ KeepTick
    \/ Rewrite

KeepUtmSpec == KeepInit0 /\ [][KeepNext]_vars

\* C20: when the URL carried UTM parameters at a run of keepUtmInUrl and a
\* rewrite has removed them since, the next run of keepUtmInUrl leaves every
\* stored key other than tracking_timestamp whose value is not empty in the
\* URL with its stored value
C20_UtmRestored ==
    [][(utmPhase = "removed" /\ Due(keepTimer) /\ keepTimer' = KeepSteps
        /\ ~sessionStorage.none) =>
          LET stored == JsonParse(sessionStorage)
          IN \A i \in 1..Len(stored) :
                (stored[i].k # "tracking_timestamp" /\ stored[i].v # "") =>
                    /\ Has(pageQuery', stored[i].k)
                    /\ Get(pageQuery', stored[i].k) = stored[i].v]_vars

-----------------------------------------------------------------------------
(* init() on a page without the CTA and without a full set of countdown     *)
(* slots: applyCtaUrl, setupMetaPixelTracking and startCountdown run in one *)
(* call of init; the carousel has no image, so initCarousel returns at its  *)
(* guard.                                                                   *)

AbsentInit ==
    /\ pageQuery \in SeqQueries
    /\ UrlAtRest
    /\ pc = "load"
    /\ variant \in {"script", "part_000"}
    /\ ctaPresent = FALSE
    /\ ctaHref = FALSE
    /\ dataDestination = NoUrl
    /\ fbq \in {"undefined", "defined", "loaded"}
    /\ fbqThrows \in BOOLEAN
    /\ fbqHasQueue \in BOOLEAN
    /\ fbqCalls = NoCalls
    /\ attempts = 0
    /\ pollTimer = Off
    /\ waitPromise = "pending"
    /\ setupPromise = "pending"
    /\ viewTimer = Off
    /\ dwellTimer = Off
    /\ leadTracked = FALSE
    /\ scrollThreshold = FALSE
    /\ timeThreshold = FALSE
    /\ engagementType = "none"
    /\ scrollListener = FALSE
    /\ clickListener = FALSE
    /\ clicks = <<>>
    /\ ignoredClicks = 0
    /\ navigations = <<>>
    /\ timeLeft = FullDay
    /\ slots \in (SUBSET AllSlots) \ {AllSlots}
    /\ display = NoDisplay
    /\ countdownTimer = FALSE
    /\ lastTick = NoTick
    /\ CarouselAtRest
    /\ UtmAtRest

\* init(): applyCtaUrl(); setupMetaPixelTracking(); startCountdown(); initCarousel()
initPage ==
    /\ pc = "load"
    /\ pc' = "run"
    /\ applyCtaUrl
    /\ checkFbq
    /\ startCountdownBody
    /\ UNCHANGED <<urlVars, variant, ctaPresent, fbq, fbqThrows, fbqHasQueue,
                   leadTracked, scrollThreshold, timeThreshold, engagementType,
                   clicks, ignoredClicks, navigations, timeLeft, slots, lastTick,
                   carouselVars, utmVars>>

AbsentNext ==
    \/ initPage
    \/ PollFire
    \/ Tick
    \/ FbqDefined
    \/ FbqLoaded

AbsentSpec == AbsentInit /\ [][AbsentNext]_vars

\* C21: with the CTA element missing, applyCtaUrl changes nothing and the
\* sequencer invokes no event and has no listener and no timer but the
\* readiness poll; with one of the three countdown slots missing,
\* startCountdown writes nothing and schedules no interval; no rejection
\* reaches init
C21_AbsentElementsNoOp ==
    pc = "run" =>
        /\ ~ctaPresent =>
              /\ dataDestination = NoUrl
              /\ ~ctaHref
              /\ fbqCalls = NoCalls
              /\ viewTimer = Off
              /\ dwellTimer = Off
              /\ ~scrollListener
              /\ ~clickListener
              /\ clicks = <<>>
              /\ navigations = <<>>
              /\ setupPromise # "rejected"
              /\ ~ENABLED (ViewContentFire \/ DwellFire \/ Scroll \/ CtaClick
                            \/ RedirectFire \/ FallbackFire)
        /\ slots # AllSlots =>
              /\ ~countdownTimer
              /\ display = NoDisplay
              /\ timeLeft = FullDay
              /\ ~ENABLED tick

\* C21 witness: the library is loaded and the poll has resolved on a page
\* without CTA whose countdown lacks the seconds slot
C21_Witness ==
    /\ pc = "run"
    /\ ~ctaPresent
    /\ waitPromise = "resolved"
    /\ setupPromise = "fulfilled"
    /\ slots = {"hours", "minutes"}
    /\ fbqCalls = NoCalls


\* ---------------------------------------------------------------------------
\* C22: once the Lead event has fired, by the scroll path or by the time path,
\* the scroll listener is no longer registered, so no scroll event is delivered
\* to handleScroll any more: leadTracked, scrollThreshold, timeThreshold and
\* the fired events cannot be changed by scrolling
C22_NoScrollAfterLead ==
    (leadTracked \/ fbqCalls["Lead"] > 0) =>
        /\ leadTracked
        /\ ~scrollListener
        /\ ~ENABLED Scroll

\* C22 witness: Lead was fired by the time path while the page had not been
\* scrolled past the threshold, and the scroll listener is gone
C22_Witness ==
    /\ pc = "run"
    /\ fbqCalls["Lead"] = 1
    /\ engagementType = "time"
    /\ ~scrollThreshold
    /\ ~scrollListener


\* ---------------------------------------------------------------------------
\* C23: for each click the 300 ms callback runs before that click's 1000 ms
\* fallback: the guard of a click is set by its 300 ms callback and by nothing
\* else, the fallback runs only after it with the guard set, and every
\* navigation was performed by a 300 ms callback
C23_PrimaryBeforeFallback ==
    /\ \A i \in 1..Len(clicks) :
          LET c == clicks[i]
          IN /\ c.redirected <=> c.t300 = Fired
             /\ (Due(c.t1000) \/ c.t1000 = Fired) => (c.t300 = Fired /\ c.redirected)
             /\ Pending(c.t300) =>
                   (Pending(c.t1000)
                      /\ c.t1000 - c.t300 = Steps(FallbackDelay) - Steps(RedirectDelay))
    /\ Len(navigations) = Cardinality({i \in 1..Len(clicks) : clicks[i].t300 = Fired})

\* C23 witness: the page was still there 1000 ms after a click, the fallback
\* ran and the one navigation of that click is the 300 ms callback's
C23_Witness ==
    /\ pc = "run"
    /\ Len(clicks) = 1
    /\ clicks[1].t300 = Fired
    /\ clicks[1].t1000 = Fired
    /\ Len(navigations) = 1


\* ---------------------------------------------------------------------------
\* C25: abandonment is final: once the attempt budget was exhausted before the
\* library loaded, the page view stays abandoned even if the library loads
\* later: the poll is not re-armed, the sequencer is not Ready, no event has
\* been fired, no scroll or click listener and no timer is registered, and
\* none of the sequencer's handlers can run
C25_AbandonmentFinal ==
    waitPromise = "rejected" =>
        /\ ~Ready
        /\ pollTimer = Off
        /\ fbqCalls = NoCalls
        /\ ~scrollListener
        /\ ~clickListener
        /\ viewTimer = Off
        /\ dwellTimer = Off
        /\ clicks = <<>>
        /\ ~ENABLED (PollFire \/ ViewContentFire \/ DwellFire \/ Scroll \/ CtaClick)

\* C25 witness: the page has a CTA, the poll was abandoned and the library
\* loaded afterwards
C25_Witness ==
    /\ pc = "run"
    /\ ctaPresent
    /\ waitPromise = "rejected"
    /\ fbq = "loaded"
    /\ ~fbqThrows
    /\ ~clickListener


\* ---------------------------------------------------------------------------
\* C29: each handled CTA click issues exactly one AddToCart call, whether or
\* not the tracking function exposes a queue property
C29_OneAddToCartPerClick ==
    fbqCalls["AddToCart"] = Len(clicks)


\* ---------------------------------------------------------------------------
\* C24: in every reachable countdown state 0 <= timeLeft <= 86400, and after
\* the initial display and after every tick the three slots show two-digit,
\* zero-padded numbers, hours in 00..24, minutes in 00..59 and seconds in
\* 00..59, with hours * 3600 + minutes * 60 + seconds = timeLeft; 24 is shown
\* only when timeLeft = 86400

\* the numbers below 100 that a slot's text is the two-digit numeral of
TwoDigitValues(str) ==
    {n \in 0..99 : str = DigitChars[(n \div 10) + 1] \o DigitChars[(n % 10) + 1]}

C24_DisplayMatchesTimeLeft ==
    /\ timeLeft >= 0
    /\ timeLeft <= 86400
    /\ countdownTimer =>
          /\ display # NoDisplay
          /\ \E h \in TwoDigitValues(display.hours) \cap (0..24) :
             \E m \in TwoDigitValues(display.minutes) \cap (0..59) :
             \E sec \in TwoDigitValues(display.seconds) \cap (0..59) :
                 /\ h * 3600 + m * 60 + sec = timeLeft
                 /\ h = 24 => timeLeft = 86400

\* C24 witness: a tick brought the countdown to 1 h 1 min 1 s, every slot
\* showing a padded one-digit number
C24_Witness ==
    /\ countdownTimer
    /\ lastTick = 3662
    /\ timeLeft = 3661
    /\ display = [hours |-> "01", minutes |-> "01", seconds |-> "01"]


\* ---------------------------------------------------------------------------
\* C26: the referrer is consulted only when UTM is absent: when the page URL
\* has a non-empty utm_source, the classification is that value lower-cased
\* and is the same whatever the referrer is, and a utm_medium given in the URL
\* is then the medium reported, for every referrer; a non-empty utm_medium of
\* the URL is reported unchanged also when utm_source is absent
\* (stated on the result of getTrafficSourceInfo, before any payload is built
\* from it)

\* the values of UtmQueryValues written in lower case
LowerCased(v) == IF v = "IG" THEN "ig" ELSE v

C26_ReferrerOnlyWithoutUtm ==
    (~trafficInfo.none /\ eventData = NoEvent) =>
        /\ (Has(pageQuery, "utm_source") /\ Get(pageQuery, "utm_source") # "") =>
              /\ trafficInfo.primarySource = LowerCased(Get(pageQuery, "utm_source"))
              /\ \A r \in Referrers :
                    LET other == getTrafficSourceInfo(pageQuery, r)
                    IN /\ other.primarySource = trafficInfo.primarySource
                       /\ Has(pageQuery, "utm_medium") =>
                             /\ Has(other.utmParams, "utm_medium")
                             /\ Get(other.utmParams, "utm_medium")
                                   = Get(pageQuery, "utm_medium")
        /\ (Has(pageQuery, "utm_medium") /\ Get(pageQuery, "utm_medium") # "") =>
              /\ Has(trafficInfo.utmParams, "utm_medium")
              /\ Get(trafficInfo.utmParams, "utm_medium") = Get(pageQuery, "utm_medium")

\* C26 witness: utm_source=IG and utm_medium=google arrive with an Instagram
\* referrer; the classification is ig and the medium is still google
C26_Witness ==
    /\ ~trafficInfo.none
    /\ eventData = NoEvent
    /\ pageQuery = <<Param("utm_source", "IG"), Param("utm_medium", "google")>>
    /\ referrer = "https://l.instagram.com/"
    /\ trafficInfo.primarySource = "ig"
    /\ Get(trafficInfo.utmParams, "utm_medium") = "google"


\* ---------------------------------------------------------------------------
\* C27: after any sequence of carousel events at most one auto-rotation
\* interval is live, and it is the one whose handle autoRotateInterval holds
C27_OneLiveInterval ==
    /\ Cardinality(DOMAIN liveIntervals) <= 1
    /\ DOMAIN liveIntervals \subseteq {autoRotateInterval}

\* ---------------------------------------------------------------------------
\* C28: in every reachable carousel state 0 <= currentIndex < number of
\* images, also when the number of indicators differs from the number of
\* images and an indicator is clicked
C28_IndexInRange ==
    carouselOn => (0 <= currentIndex /\ currentIndex < nImages)


-----------------------------------------------------------------------------
(* buildTrackedUrl from string to string: new URL(baseUrl) parses the       *)
(* template, url.toString() writes the result.  The query is written by the *)
(* application/x-www-form-urlencoded serializer and read by its parser.     *)

\* the characters of the model's values that the serializer does not write
\* as they are, and what it writes for them
Escapes == <<[c |-> " ", e |-> "+"], [c |-> "&", e |-> "%26"],
             [c |-> "=", e |-> "%3D"], [c |-> "+", e |-> "%2B"],
             [c |-> "%", e |-> "%25"], [c |-> "?", e |-> "%3F"],
             [c |-> "/", e |-> "%2F"], [c |-> ":", e |-> "%3A"]>>

EncodeChar(c) ==
    IF \E i \in 1..Len(Escapes) : Escapes[i].c = c
    THEN Escapes[CHOOSE i \in 1..Len(Escapes) : Escapes[i].c = c].e
    ELSE c

\* the serializer, for one name or value
UrlEncode(str) ==
    LET F[i \in 0..Len(str)] ==
            IF i = 0 THEN "" ELSE F[i - 1] \o EncodeChar(CharAt(str, i))
    IN F[Len(str)]

\* the parser, for one name or value: + is a space, %XX is the character
UrlDecode(str) ==
    LET D[i \in 1..(Len(str) + 1)] ==
            IF i > Len(str) THEN ""
            ELSE IF CharAt(str, i) = "+" THEN " " \o D[i + 1]
            ELSE IF /\ CharAt(str, i) = "%"
                    /\ i + 2 <= Len(str)
                    /\ \E k \in 2..Len(Escapes) : Escapes[k].e = SubSeq(str, i, i + 2)
            THEN Escapes[CHOOSE k \in 2..Len(Escapes) :
                             Escapes[k].e = SubSeq(str, i, i + 2)].c \o D[i + 3]
            ELSE CharAt(str, i) \o D[i + 1]
    IN D[1]

\* URLSearchParams.prototype.toString
Serialize(params) ==
    LET F[i \in 0..Len(params)] ==
            IF i = 0 THEN ""
            ELSE F[i - 1] \o (IF i = 1 THEN "" ELSE "&")
                    \o UrlEncode(params[i].k) \o "=" \o UrlEncode(params[i].v)
    IN F[Len(params)]

\* the first position of character c in str from position i on, or Len + 1
IndexFrom(str, c, i) ==
    IF \E j \in i..Len(str) : CharAt(str, j) = c
    THEN CHOOSE j \in i..Len(str) :
             /\ CharAt(str, j) = c
             /\ \A h \in i..(j - 1) : CharAt(str, h) # c
    ELSE Len(str) + 1

\* one name=value piece of a query: split at the first =
ParsePair(piece) ==
    LET eq == IndexFrom(piece, "=", 1)
    IN Param(UrlDecode(SubSeq(piece, 1, eq - 1)),
             UrlDecode(SubSeq(piece, eq + 1, Len(piece))))

\* the parser of a query string: pieces between &, empty pieces skipped
ParseQuery(query) ==
    LET P[i \in 1..(Len(query) + 1)] ==
            IF i > Len(query) THEN <<>>
            ELSE LET amp == IndexFrom(query, "&", i)
                     rest == IF amp >= Len(query) THEN <<>> ELSE P[amp + 1]
                 IN IF amp = i THEN rest
                    ELSE <<ParsePair(SubSeq(query, i, amp - 1))>> \o rest
    IN P[1]

\* url.toString(): the origin, the path / and the query if there is one
toString(url) ==
    url.origin \o "/" \o (IF url.params = <<>> THEN "" ELSE "?" \o Serialize(url.params))

\* new URL(baseUrl)
newURL(href) ==
    LET q == IndexFrom(href, "?", 1)
        before == SubSeq(href, 1, q - 1)
        origin == IF Len(before) > 0 /\ CharAt(before, Len(before)) = "/"
                  THEN SubSeq(before, 1, Len(before) - 1)
                  ELSE before
    IN Url(origin, ParseQuery(SubSeq(href, q + 1, Len(href))))

\* buildTrackedUrl as it is called: a URL string in, a URL string out
buildTrackedUrlHref(href, sourceParams) ==
    toString(buildTrackedUrl(newURL(href), sourceParams))

\* the place of a key in the whitelist
WhitelistIndex(key) == CHOOSE i \in 1..Len(allowedParams) : allowedParams[i] = key

\* a page query with its parameters in the opposite order
Reversed(params) == [i \in 1..Len(params) |-> params[Len(params) + 1 - i]]

\* C30: buildTrackedUrl is idempotent and deterministic in its inputs: applied
\* to its own result with the same source parameters it returns that result,
\* and the parameters it added come after the template's own, in whitelist
\* order, whatever their order in the source parameters
C30_IdempotentOrdered ==
    ~trackedUrl.none =>
        LET once == toString(trackedUrl)
            n == Len(baseUrl.params)
            added == SubSeq(trackedUrl.params, n + 1, Len(trackedUrl.params))
        IN /\ once = buildTrackedUrlHref(toString(baseUrl), pageQuery)
           /\ buildTrackedUrlHref(once, pageQuery) = once
           /\ SubSeq(trackedUrl.params, 1, n) = baseUrl.params
           /\ \A i \in 1..Len(added) :
                 /\ added[i].k \in KeysOf(pageQuery) \cap Whitelist
                 /\ \A j \in (i + 1)..Len(added) :
                       WhitelistIndex(added[i].k) < WhitelistIndex(added[j].k)
           /\ Cardinality(KeysOf(pageQuery)) = Len(pageQuery) =>
                 buildTrackedUrl(baseUrl, Reversed(pageQuery)) = trackedUrl

\* C30 witness: template ?ch=1, page query ?gclid=a+b%26c&utm_source=9: the
\* two keys were added in whitelist order, the value written encoded
C30_Witness ==
    /\ baseUrl.params = <<Param("ch", "1")>>
    /\ pageQuery = <<Param("gclid", "a b&c"), Param("utm_source", "9")>>
    /\ ~trackedUrl.none
    /\ toString(trackedUrl) = "https://d.example/?ch=1&utm_source=9&gclid=a+b%26c"


-----------------------------------------------------------------------------
(* applyCtaUrl on drawn page queries: the attribute the CTA is left with    *)

CtaInit ==
    /\ pageQuery \in Sources
    /\ UrlAtRest
    /\ pc = "load"
    /\ variant \in {"script", "part_000"}
    /\ ctaPresent \in BOOLEAN
    /\ ctaHref = ctaPresent
    /\ dataDestination = NoUrl
    /\ fbq = "undefined"
    /\ fbqThrows = FALSE
    /\ fbqHasQueue = FALSE
    /\ fbqCalls = NoCalls
    /\ attempts = 0
    /\ pollTimer = Off
    /\ waitPromise = "none"
    /\ setupPromise = "none"
    /\ viewTimer = Off
    /\ dwellTimer = Off
    /\ leadTracked = FALSE
    /\ scrollThreshold = FALSE
    /\ timeThreshold = FALSE
    /\ engagementType = "none"
    /\ scrollListener = FALSE
    /\ clickListener = FALSE
    /\ clicks = <<>>
    /\ ignoredClicks = 0
    /\ navigations = <<>>
    /\ CountdownAtRest
    /\ CarouselAtRest
    /\ UtmAtRest

\* init() up to the return of applyCtaUrl, its first statement
CallApplyCtaUrl ==
    /\ pc = "load"
    /\ pc' = "run"
    /\ applyCtaUrl
    /\ UNCHANGED <<urlVars, variant, ctaPresent, fbq, fbqThrows, fbqHasQueue, fbqCalls,
                   seqVars, countdownVars, carouselVars, utmVars>>

CtaNext == CallApplyCtaUrl

CtaSpec == CtaInit /\ [][CtaNext]_vars

\* C31: the channel and pixel identifiers of the outbound link do not depend
\* on the visitor's URL: whatever the page query is, also when it supplies ch
\* or fbPixelId itself, the data-destination applyCtaUrl stores carries ch and
\* fbPixelId exactly once each, with the values of the DESTINATION_URL
\* constant of the file that runs, in the record and in the string written
C31_IdentifiersFixed ==
    (pc = "run" /\ ctaPresent) =>
        LET ch == IF variant = "script" THEN "6825" ELSE "32098"
            fbPixelId == IF variant = "script" THEN "1032961382302053"
                         ELSE "1289805165983519"
            stored == newURL(toString(dataDestination))
        IN /\ ~dataDestination.none
           /\ GetAll(dataDestination.params, "ch") = <<ch>>
           /\ GetAll(dataDestination.params, "fbPixelId") = <<fbPixelId>>
           /\ GetAll(stored.params, "ch") = <<ch>>
           /\ GetAll(stored.params, "fbPixelId") = <<fbPixelId>>

\* C31 witness: the page query supplies both identifiers, ?ch=9&fbPixelId=9,
\* and the link of part_000 keeps its own
C31_Witness ==
    /\ pc = "run"
    /\ ctaPresent
    /\ variant = "part_000"
    /\ pageQuery = <<Param("ch", "9"), Param("fbPixelId", "9")>>
    /\ dataDestination = DestinationPart000


\* ---------------------------------------------------------------------------
\* C32: in part_000, once the sequencer is Ready and the CTA exists, PageView
\* is fired exactly once and strictly before every ViewContent, Lead and
\* AddToCart of the page view, for every interleaving of scroll events,
\* clicks and timers: the step that fires PageView finds and leaves the other
\* counts at zero, and a step that fires another event finds PageView fired

\* the invocations of the three later events
LaterEvents(calls) == calls["ViewContent"] + calls["Lead"] + calls["AddToCart"]

C32_PageViewFirst ==
    [][/\ fbqCalls'["PageView"] = IF variant' = "part_000" /\ Ready' THEN 1 ELSE 0
       /\ fbqCalls'["PageView"] # fbqCalls["PageView"] =>
             (LaterEvents(fbqCalls) = 0 /\ LaterEvents(fbqCalls') = 0)
       /\ (variant = "part_000" /\ LaterEvents(fbqCalls') # LaterEvents(fbqCalls)) =>
             (fbqCalls["PageView"] = 1 /\ fbqCalls'["PageView"] = 1)]_vars

\* C32 witness: a page view of part_000 on which all four events were fired
C32_Witness ==
    /\ variant = "part_000"
    /\ Ready
    /\ fbqCalls["PageView"] = 1
    /\ fbqCalls["ViewContent"] = 1
    /\ fbqCalls["Lead"] = 1
    /\ fbqCalls["AddToCart"] >= 1


\* ---------------------------------------------------------------------------
\* C33: the Lead event's engagement_type is 'scroll' if and only if a scroll
\* past 300 px was observed before the 10000 ms dwell timer fired, and 'time'
\* if and only if the dwell timer fired first: a scroll is observed only
\* while no Lead was sent, the type is 'scroll' exactly when one was observed,
\* and 'time' exactly when the dwell timer has fired with none observed
C33_EngagementType ==
    /\ engagementType \in {"none", "scroll", "time"}
    /\ engagementType = "none" <=> ~leadTracked
    /\ engagementType = "scroll" <=> scrollThreshold
    /\ engagementType = "time" <=> (timeThreshold /\ ~scrollThreshold)
    /\ timeThreshold <=> dwellTimer = Fired
    /\ leadTracked => fbqCalls["Lead"] = 1

\* C33 witness: the scroll came first and Lead was sent as 'scroll'; the dwell
\* timer fired afterwards and changed nothing
C33_Witness ==
    /\ engagementType = "scroll"
    /\ scrollThreshold
    /\ dwellTimer = Fired
    /\ fbqCalls["Lead"] = 1


C35_DestinationBeforeHandler ==
    /\ clickListener =>
          /\ ctaPresent
          /\ ~dataDestination.none
          /\ dataDestination.origin # ""
    /\ clicks # <<>> => clickListener
    /\ fbqCalls["AddToCart"] > 0 => clicks # <<>>
    /\ \A i \in 1..Len(clicks) :
          /\ clicks[i].t300 # Off \/ pc = "unloaded"
          /\ clicks[i].t1000 # Off \/ pc = "unloaded"

\* C35 witness: two clicks were handled on a page whose tracking function has
\* no queue property; the second has just scheduled its two timers
C35_Witness ==
    /\ pc = "run"
    /\ ~fbqHasQueue
    /\ Len(clicks) = 2
    /\ fbqCalls["AddToCart"] = 2
    /\ clicks[2].t300 = Steps(RedirectDelay)
    /\ clicks[2].t1000 = Steps(FallbackDelay)
    /\ ~dataDestination.none

=============================================================================
